---- MODULE Spec2Model ----
(***************************************************************************)
(* Model of StreamRTSP.py: the per-session streaming worker (StreamWorker  *)
(* and its capture loop _run), the session registry _workers_by_sid, the   *)
(* Socket.IO handlers on_start_stream / on_stop_stream and the helper      *)
(* _resize_keep_w.                                                         *)
(*                                                                         *)
(* Every StreamWorker runs _run on its own thread; the thread is modelled  *)
(* by a program counter per worker and interleaves freely with the         *)
(* handlers and with the other workers.  Time is a clock in ticks that a   *)
(* worker reads at its rate check; the transport's events (connect,        *)
(* start_stream, stop_stream, disconnect) are the inputs.                  *)
(*                                                                         *)
(* Specifications:                                                         *)
(*   Spec          the module, each handler one atomic action              *)
(*   SpecSessions  the same with two clients connected from the start      *)
(*   SpecRace      the handlers statement by statement, interleaved        *)
(*   SpecWorker    one StreamWorker with start() / stop() called on it     *)
(*   FairWorker    SpecWorker with the worker's thread scheduled fairly    *)
(*   SpecResize    one call of _resize_keep_w                              *)
(***************************************************************************)
EXTENDS Integers, Sequences, FiniteSets, TLC

\* ---------------------------------------------------------------- bounds
MaxWorkers == 2    \* StreamWorker instances constructed in one behaviour
MaxFrames  == 2    \* frames the sources deliver in one behaviour, all workers together
MaxReqs    == 2    \* connects, start_stream / stop_stream requests and disconnects
MaxTime    == 1    \* clock ticks that pass after the process has started
MaxDim     == 6    \* widths and heights of frames, and width limits, in pixels
MaxCalls   == 3    \* start() / stop() calls made on one StreamWorker instance

\* ------------------------------------------------------------- constants
Sessions == {"s1", "s2"}           \* request.sid values
FirstSession == "s1"               \* the client connected from the start
NoWorker == 0                      \* dict.pop(sid, None) -> None
Workers  == 1..MaxWorkers
NoCam    == 0                      \* a payload without an integer cam_id

\* One clock tick is 1/TicksPerSec seconds.
TicksPerSec == 1
\* time.time() when the process starts, in ticks: far from last_emit = 0.0
StartTime == 2 * TicksPerSec

\* load_cameras(): camera id -> record.  URLs are sequences of characters.
Cameras ==
  [c \in {1, 2, 3, 4} |->
     CASE c = 1 -> [rtsp_url |-> <<"0">>,           stream_enabled |-> TRUE]
       [] c = 2 -> [rtsp_url |-> <<"r", "t", "s">>, stream_enabled |-> FALSE]
       [] c = 3 -> [rtsp_url |-> <<" ">>,           stream_enabled |-> FALSE]
       [] c = 4 -> [rtsp_url |-> <<>>,              stream_enabled |-> TRUE]]

\* cam_id values a start_stream payload may carry (5 is in no registry)
CamIds == {1, 2, 3, 4, 5}
Payloads == CamIds \cup {NoCam}

\* parameter_config.json: the settings records the file may hold
\* (fps_target as a fraction <<numerator, denominator>>)
ParamChoices ==
  { [annotation_stride |-> 1, fps_target |-> <<1, 2>>],
    [annotation_stride |-> 2, fps_target |-> <<2, 1>>] }

VARIABLES
  registry,    \* _workers_by_sid: session id -> worker (NoWorker: no entry)
  workers,     \* the StreamWorker instances, by construction order
  out,         \* per session: the events emitted to it, in order
  connected,   \* per session: "new" (not connected yet), "up" or "gone"
  params,      \* the settings record _load_param() returns
  now,         \* what time.time() returned last, in ticks
  nreq,        \* transport events (connects, requests, disconnects) so far
  call,        \* the last direct call of a function or method, and its result
  reqs         \* the handler threads: the request each serves and its position

vars == <<registry, workers, out, connected, params, now, nreq, call, reqs>>

\* ---------------------------------------------------------------- events
\* An emitted event.  src tells who called emit ("handler" or "worker"),
\* w the worker the event is about, idx the capture index of a frame,
\* late whether the worker's stop signal was set when it emitted the frame
\* and at the clock value its rate check read.
Event(ev, cam_id, msg, src, w, idx) ==
  [ev |-> ev, cam_id |-> cam_id, msg |-> msg, src |-> src, w |-> w, idx |-> idx,
   late |-> FALSE, at |-> 0]

\* the frame event of worker w, an instance with fields as wr
FrameEvent(w, wr) ==
  [Event("frame", wr.cam_id, "", "worker", w, wr.frame_idx)
     EXCEPT !.late = wr.stop, !.at = wr.last_emit]

\* an emit without addressee: socketio.emit(...) sends to every client
Emit_broadcast(o, sid, e) == [s \in DOMAIN o |-> Append(o[s], e)]

\* emit(...) in a handler, socketio.emit(..., to=sid) in a worker
Emit(o, sid, e) == [o EXCEPT ![sid] = Append(@, e)]

\* ----------------------------------------------------- _resize_keep_w
\* A frame: its width and height (frame.shape) and whether it is the array
\* the source delivered or one cv2.resize made.
FrameShapes ==
  [w : 1..MaxDim, h : 1..MaxDim, data : {"source"}]

\* no frame (the call has not returned)
NoFrame == [w |-> 0, h |-> 0, data |-> "none"]

\* Values of the max_w argument: an int, or a value that is no int (None,
\* a string, a float), for which isinstance(max_w, int) is false.
MaxWidths ==
  [type : {"int"}, val : (-1)..MaxDim] \cup {[type |-> "other", val |-> 0]}

\* _resize_keep_w without the max(1, ...) around the new height
ResizeKeepW_noFloor(frame, max_w, low) ==
  IF max_w.type # "int" \/ max_w.val <= 0 THEN frame
  ELSE IF frame.w <= max_w.val THEN frame
  ELSE LET q == (frame.h * max_w.val) \div frame.w
           exact == (frame.h * max_w.val) % frame.w = 0
       IN  [w |-> max_w.val, h |-> IF exact /\ low THEN q - 1 ELSE q,
            data |-> "resized"]

\* _resize_keep_w(frame, max_w).  scale = max_w / float(w) and h * scale
\* are doubles: when h * max_w is a multiple of w the product is the
\* quotient or, rounded twice, a double just below it (49 * (1 / 49.0) is
\* below 1.0), which int() truncates to one less; low tells which.  When
\* it is no multiple the product is within 1/w of no integer and int()
\* gives the floor of the quotient.
ResizeKeepW(frame, max_w, low) ==
  IF max_w.type # "int" \/ max_w.val <= 0 THEN frame
  ELSE IF frame.w <= max_w.val THEN frame
  ELSE LET q == (frame.h * max_w.val) \div frame.w
           exact == (frame.h * max_w.val) % frame.w = 0
           t == IF exact /\ low THEN q - 1 ELSE q
           nh == IF t > 1 THEN t ELSE 1
       IN  [w |-> max_w.val, h |-> nh, data |-> "resized"]

\* ------------------------------------------------------- StreamWorker
\* A slot no StreamWorker has been constructed in yet.
NoInstance ==
  [sid |-> "", cam_id |-> NoCam, stop |-> FALSE, pc |-> "none",
   frame_idx |-> 0, last_emit |-> 0, cap |-> "none"]

\* StreamWorker.__init__: _thr = None, _stop clear
NewWorker(sid, cam_id) ==
  [sid |-> sid, cam_id |-> cam_id, stop |-> FALSE, pc |-> "init",
   frame_idx |-> 0, last_emit |-> 0, cap |-> "none"]

\* self._thr and self._thr.is_alive()
IsAlive(wr) == wr.pc \notin {"none", "init", "done"}

\* start() without the test of the previous thread
WorkerStart_noGuard(wr) ==
  [wr EXCEPT !.stop = FALSE, !.pc = "open", !.frame_idx = 0,
             !.last_emit = 0, !.cap = "none"]

\* StreamWorker.start on instance wr
WorkerStart(wr) ==
  IF IsAlive(wr) THEN wr
  ELSE [wr EXCEPT !.stop = FALSE, !.pc = "open", !.frame_idx = 0,
                  !.last_emit = 0, !.cap = "none"]

\* stop() that does not set the signal
WorkerStop_skip(wr) == wr

\* StreamWorker.stop on instance wr
WorkerStop(wr) == [wr EXCEPT !.stop = TRUE]

\* stride = max(1, int(params['annotation_stride']))
Stride == IF params.annotation_stride > 1 THEN params.annotation_stride ELSE 1

\* a loop without the rate check
TooSoon_off(t, last) == FALSE

\* now - last_emit < period, with period = 1.0 / max(1.0, fps_target) and
\* fps_target = n/d: the period is d/n seconds when n >= d and 1 second
\* otherwise; both sides are multiplied by the denominators.
TooSoon(t, last) ==
  LET n == params.fps_target[1]
      d == params.fps_target[2]
  IN  IF n >= d THEN (t - last) * n < TicksPerSec * d
                ELSE (t - last) < TicksPerSec

\* ------------------------------------------------------ camera lookup
\* str.strip() on a sequence of characters
RECURSIVE LStrip(_)
LStrip(u) == IF u # <<>> /\ Head(u) = " " THEN LStrip(Tail(u)) ELSE u

RECURSIVE RStrip(_)
RStrip(u) ==
  IF u # <<>> /\ u[Len(u)] = " " THEN RStrip(SubSeq(u, 1, Len(u) - 1)) ELSE u

Strip(u) == RStrip(LStrip(u))

\* _get_cam_url without the empty-URL test
GetCamUrl_noUrlCheck(cam_id) ==
  IF cam_id \notin DOMAIN Cameras
  THEN [err |-> "camera_not_found", url |-> <<>>, enabled |-> FALSE]
  ELSE [err |-> "", url |-> Strip(Cameras[cam_id].rtsp_url),
        enabled |-> Cameras[cam_id].stream_enabled]

\* _get_cam_url that does not read the camera's stream_enabled flag
GetCamUrl_alwaysEnabled(cam_id) ==
  IF cam_id \notin DOMAIN Cameras
  THEN [err |-> "camera_not_found", url |-> <<>>, enabled |-> FALSE]
  ELSE LET url == Strip(Cameras[cam_id].rtsp_url)
       IN  IF url = <<>>
           THEN [err |-> "rtsp_url_empty", url |-> <<>>, enabled |-> FALSE]
           ELSE [err |-> "", url |-> url, enabled |-> TRUE]

\* _get_cam_url(cam_id): err is the message of the RuntimeError raised
\* ("" when the lookup returns), url and enabled the pair returned.
GetCamUrl(cam_id) ==
  IF cam_id \notin DOMAIN Cameras
  THEN [err |-> "camera_not_found", url |-> <<>>, enabled |-> FALSE]
  ELSE LET url == Strip(Cameras[cam_id].rtsp_url)
       IN  IF url = <<>>
           THEN [err |-> "rtsp_url_empty", url |-> <<>>, enabled |-> FALSE]
           ELSE [err |-> "", url |-> url,
                 enabled |-> Cameras[cam_id].stream_enabled]

\* no function or method has been called directly
NoCall == [fn |-> "none"]

\* The handler threads of the transport, one per request; a thread that
\* serves no request yet is idle.
Handlers == 1..MaxReqs
Idle == [kind |-> "none", sid |-> "", cam_id |-> NoCam, pc |-> "idle", w |-> NoWorker]

\* the slots a StreamWorker has been constructed in
Created == {w \in Workers : workers[w].pc # "none"}

Init ==
  /\ registry = [s \in Sessions |-> NoWorker]
  /\ workers = [w \in Workers |-> NoInstance]
  /\ out = [s \in Sessions |-> <<>>]
  /\ connected = [s \in Sessions |-> IF s = FirstSession THEN "up" ELSE "new"]
  /\ params \in ParamChoices
  /\ now = StartTime
  /\ nreq = 0
  /\ call = NoCall
  /\ reqs = [h \in Handlers |-> Idle]

\* ------------------------------------------------------ socket handlers
\* the slot the next StreamWorker(...) is constructed in
NextSlot == Cardinality(Created) + 1

\* on_start_stream that stops the session's previous worker before it
\* parses the payload
on_start_stream_popFirst(sid, payload) ==
  LET old == registry[sid]
      stopped == IF old # NoWorker
                 THEN [workers EXCEPT ![old] = WorkerStop(@)]
                 ELSE workers
      r == GetCamUrl(payload)
  IN  IF payload = NoCam \/ r.err # ""
      THEN /\ registry' = [registry EXCEPT ![sid] = NoWorker]
           /\ workers' = stopped
           /\ out' = Emit(out, sid,
                        Event("stream_error", NoCam,
                              IF payload = NoCam THEN "invalid_cam_id" ELSE r.err,
                              "handler", NoWorker, 0))
      ELSE IF ~r.enabled
      THEN /\ registry' = [registry EXCEPT ![sid] = NoWorker]
           /\ workers' = stopped
           /\ out' = Emit(out, sid,
                        Event("stream_stopped", payload, "", "handler", NoWorker, 0))
      ELSE /\ NextSlot \in Workers
           /\ registry' = [registry EXCEPT ![sid] = NextSlot]
           /\ workers' = [stopped EXCEPT
                            ![NextSlot] = WorkerStart(NewWorker(sid, payload))]
           /\ UNCHANGED out

\* on_start_stream(payload) with request.sid = sid
on_start_stream(sid, payload) ==
  IF payload = NoCam
  THEN /\ out' = Emit(out, sid,
                    Event("stream_error", NoCam, "invalid_cam_id", "handler", NoWorker, 0))
       /\ UNCHANGED <<registry, workers>>
  ELSE LET old == registry[sid]
           stopped == IF old # NoWorker
                      THEN [workers EXCEPT ![old] = WorkerStop(@)]
                      ELSE workers
           r == GetCamUrl(payload)
       IN  IF r.err # ""
           THEN /\ registry' = [registry EXCEPT ![sid] = NoWorker]
                /\ workers' = stopped
                /\ out' = Emit(out, sid,
                             Event("stream_error", NoCam, r.err, "handler", NoWorker, 0))
           ELSE IF ~r.enabled
           THEN /\ registry' = [registry EXCEPT ![sid] = NoWorker]
                /\ workers' = stopped
                /\ out' = Emit(out, sid,
                             Event("stream_stopped", payload, "", "handler", NoWorker, 0))
           ELSE /\ NextSlot \in Workers
                /\ registry' = [registry EXCEPT ![sid] = NextSlot]
                /\ workers' = [stopped EXCEPT
                                 ![NextSlot] = WorkerStart(NewWorker(sid, payload))]
                /\ UNCHANGED out

\* on_stop_stream with the emit outside the "if w:" block
on_stop_stream_always(sid) ==
  LET w == registry[sid]
  IN  /\ registry' = [registry EXCEPT ![sid] = NoWorker]
      /\ workers' = IF w # NoWorker THEN [workers EXCEPT ![w] = WorkerStop(@)]
                    ELSE workers
      /\ out' = Emit(out, sid,
                   Event("stream_stopped",
                         IF w # NoWorker THEN workers[w].cam_id ELSE NoCam,
                         "", "handler", w, 0))

\* on_stop_stream that reads the entry with get() instead of pop()
on_stop_stream_keep(sid) ==
  LET w == registry[sid]
  IN  IF w # NoWorker
      THEN /\ UNCHANGED registry
           /\ workers' = [workers EXCEPT ![w] = WorkerStop(@)]
           /\ out' = Emit(out, sid,
                        Event("stream_stopped", workers[w].cam_id, "", "handler", w, 0))
      ELSE UNCHANGED <<registry, workers, out>>

\* on_stop_stream() with request.sid = sid
on_stop_stream(sid) ==
  LET w == registry[sid]
  IN  IF w # NoWorker
      THEN /\ registry' = [registry EXCEPT ![sid] = NoWorker]
           /\ workers' = [workers EXCEPT ![w] = WorkerStop(@)]
           /\ out' = Emit(out, sid,
                        Event("stream_stopped", workers[w].cam_id, "", "handler", w, 0))
      ELSE UNCHANGED <<registry, workers, out>>

StartStream(sid, payload) ==
  /\ connected[sid] = "up"
  /\ nreq < MaxReqs
  /\ on_start_stream(sid, payload)
  /\ nreq' = nreq + 1
  /\ UNCHANGED <<connected, params, call, reqs, now>>

StopStream(sid) ==
  /\ connected[sid] = "up"
  /\ nreq < MaxReqs
  /\ on_stop_stream(sid)
  /\ nreq' = nreq + 1
  /\ UNCHANGED <<connected, params, call, reqs, now>>

\* A further client connects and the transport gives it session id sid.
Connect(sid) ==
  /\ connected[sid] = "new"
  /\ nreq < MaxReqs
  /\ connected' = [connected EXCEPT ![sid] = "up"]
  /\ nreq' = nreq + 1
  /\ UNCHANGED <<registry, workers, out, params, call, reqs, now>>

\* The client of session sid goes away.  The module registers no handler
\* for the transport's disconnect event: nothing else changes.
Disconnect(sid) ==
  /\ connected[sid] = "up"
  /\ nreq < MaxReqs
  /\ connected' = [connected EXCEPT ![sid] = "gone"]
  /\ nreq' = nreq + 1
  /\ UNCHANGED <<registry, workers, out, params, call, reqs, now>>

\* ---------------------------------------------------- StreamWorker._run
\* _run with src.open() inside the try/finally block
WOpen_viaFinally(w, ok) ==
  /\ workers[w].pc = "open"
  /\ IF ok
     THEN /\ workers' = [workers EXCEPT ![w].pc = "head", ![w].cap = "open"]
          /\ UNCHANGED out
     ELSE /\ workers' = [workers EXCEPT ![w].pc = "finally", ![w].cap = "failed"]
          /\ out' = Emit(out, workers[w].sid,
                       Event("stream_error", NoCam, "open_error", "worker", w, 0))
  /\ UNCHANGED <<registry, connected, params, call, reqs, now, nreq>>

\* src.open(): it returns, or raises and _run reports open_error and returns
WOpen(w, ok) ==
  /\ workers[w].pc = "open"
  /\ IF ok
     THEN /\ workers' = [workers EXCEPT ![w].pc = "head", ![w].cap = "open"]
          /\ UNCHANGED out
     ELSE /\ workers' = [workers EXCEPT ![w].pc = "done", ![w].cap = "failed"]
          /\ out' = Emit(out, workers[w].sid,
                       Event("stream_error", NoCam, "open_error", "worker", w, 0))
  /\ UNCHANGED <<registry, connected, params, call, reqs, now, nreq>>

\* a loop head that does not test the stop signal
WHead_ignoreStop(w) ==
  /\ workers[w].pc = "head"
  /\ workers' = [workers EXCEPT ![w].pc = "read"]
  /\ UNCHANGED <<registry, out, connected, params, call, reqs, now, nreq>>

\* while not self._stop.is_set()
WHead(w) ==
  /\ workers[w].pc = "head"
  /\ workers' = [workers EXCEPT
                  ![w].pc = IF workers[w].stop THEN "finally" ELSE "read"]
  /\ UNCHANGED <<registry, out, connected, params, call, reqs, now, nreq>>

\* frames read so far by the workers 1..n
RECURSIVE FramesRead(_)
FramesRead(n) == IF n = 0 THEN 0 ELSE workers[n].frame_idx + FramesRead(n - 1)

\* the frame-skip test on a 0-based index
StrideHit_offByOne(idx) == ((idx - 1) % Stride) = 0

\* whether frame_idx passes the frame-skip test
StrideHit(idx) == (idx % Stride) = 0

\* a loop that treats a read without frame as a failure of the source
WRead_reportNone(w, res) ==
  /\ workers[w].pc = "read"
  /\ IF res = "frame"
     THEN /\ FramesRead(MaxWorkers) < MaxFrames
          /\ workers' = [workers EXCEPT
                ![w].frame_idx = @ + 1,
                ![w].pc = IF StrideHit(workers[w].frame_idx + 1)
                          THEN "process" ELSE "head"]
          /\ UNCHANGED out
     ELSE /\ workers' = [workers EXCEPT ![w].pc = "finally"]
          /\ out' = Emit(out, workers[w].sid,
                       Event("stream_error", NoCam, "rtsp_error", "worker", w, 0))
  /\ UNCHANGED <<registry, connected, params, call, reqs, now, nreq>>

\* frame = src.read() and the frame-skip test.  res is what read() does:
\* "none" (no frame), "frame", or "raise".
WRead(w, res) ==
  /\ workers[w].pc = "read"
  /\ CASE res = "none" ->
            /\ workers' = [workers EXCEPT ![w].pc = "head"]
            /\ UNCHANGED out
       [] res = "frame" ->
            /\ FramesRead(MaxWorkers) < MaxFrames
            /\ workers' = [workers EXCEPT
                  ![w].frame_idx = @ + 1,
                  ![w].pc = IF StrideHit(workers[w].frame_idx + 1)
                            THEN "process" ELSE "head"]
            /\ UNCHANGED out
       [] res = "raise" ->
            /\ workers' = [workers EXCEPT ![w].pc = "finally"]
            /\ out' = Emit(out, workers[w].sid,
                         Event("stream_error", NoCam, "rtsp_error", "worker", w, 0))
  /\ UNCHANGED <<registry, connected, params, call, reqs, now, nreq>>

\* resize, rate check, encode and emit of one frame.  t is what time.time()
\* returns: the clock has not gone back since it was last read.  res is
\* what cv2.imencode does: "ok", "fail" (ok is false) or "raise".
WProcess(w, t, res) ==
  /\ workers[w].pc = "process"
  /\ t >= now
  /\ now' = t
  /\ IF TooSoon(t, workers[w].last_emit)
     THEN /\ res = "ok"
          /\ workers' = [workers EXCEPT ![w].pc = "head"]
          /\ UNCHANGED out
     ELSE CASE res = "ok" ->
                 /\ workers' = [workers EXCEPT ![w].pc = "head",
                                                ![w].last_emit = t]
                 /\ out' = Emit(out, workers[w].sid,
                              FrameEvent(w, [workers[w] EXCEPT !.last_emit = t]))
            [] res = "fail" ->
                 /\ workers' = [workers EXCEPT ![w].pc = "head",
                                                ![w].last_emit = t]
                 /\ UNCHANGED out
            [] res = "raise" ->
                 /\ workers' = [workers EXCEPT ![w].pc = "finally",
                                                ![w].last_emit = t]
                 /\ out' = Emit(out, workers[w].sid,
                              Event("stream_error", NoCam, "rtsp_error", "worker", w, 0))
  /\ UNCHANGED <<registry, connected, params, call, reqs, nreq>>

\* a finally block that only closes the source
WFinally_silent(w) ==
  /\ workers[w].pc = "finally"
  /\ workers' = [workers EXCEPT ![w].pc = "done", ![w].cap = "none"]
  /\ UNCHANGED <<registry, out, connected, params, call, reqs, now, nreq>>

\* finally: src.close(), then emit stream_stopped
WFinally(w) ==
  /\ workers[w].pc = "finally"
  /\ workers' = [workers EXCEPT ![w].pc = "done", ![w].cap = "none"]
  /\ out' = Emit(out, workers[w].sid,
               Event("stream_stopped", workers[w].cam_id, "", "worker", w, 0))
  /\ UNCHANGED <<registry, connected, params, call, reqs, now, nreq>>

\* the values time.time() may return
Times == StartTime .. (StartTime + MaxTime)

Next ==
  \/ \E s \in Sessions, p \in Payloads : StartStream(s, p)
  \/ \E s \in Sessions : StopStream(s)
  \/ \E s \in Sessions : Connect(s)
  \/ \E s \in Sessions : Disconnect(s)
  \/ \E w \in Workers, ok \in BOOLEAN : WOpen(w, ok)
  \/ \E w \in Workers : WHead(w)
  \/ \E w \in Workers, res \in {"none", "frame", "raise"} : WRead(w, res)
  \/ \E w \in Workers, t \in Times, res \in {"ok", "fail", "raise"} :
       WProcess(w, t, res)
  \/ \E w \in Workers : WFinally(w)

Spec == Init /\ [][Next]_vars

\* ------------------------------------------------ two connected clients
\* The process with every client connected from the start, and no client
\* coming or going: the requests of two sessions and their workers
\* interleave.  Every rate check reads the same clock value (time.time()
\* may return the value it returned before).
InitSessions ==
  /\ registry = [s \in Sessions |-> NoWorker]
  /\ workers = [w \in Workers |-> NoInstance]
  /\ out = [s \in Sessions |-> <<>>]
  /\ connected = [s \in Sessions |-> "up"]
  /\ params \in ParamChoices
  /\ now = StartTime
  /\ nreq = 0
  /\ call = NoCall
  /\ reqs = [h \in Handlers |-> Idle]

NextSessions ==
  \/ \E s \in Sessions, p \in Payloads : StartStream(s, p)
  \/ \E s \in Sessions : StopStream(s)
  \/ \E w \in Workers, ok \in BOOLEAN : WOpen(w, ok)
  \/ \E w \in Workers : WHead(w)
  \/ \E w \in Workers, res \in {"none", "frame", "raise"} : WRead(w, res)
  \/ \E w \in Workers, res \in {"ok", "fail", "raise"} : WProcess(w, now, res)
  \/ \E w \in Workers : WFinally(w)

SpecSessions == InitSessions /\ [][NextSessions]_vars

\* ------------------------------------------------- _resize_keep_w alone
\* One call of _resize_keep_w on any frame with any max_w; nothing else
\* runs.
InitResize ==
  /\ registry = [s \in Sessions |-> NoWorker]
  /\ workers = [w \in Workers |-> NoInstance]
  /\ out = [s \in Sessions |-> <<>>]
  /\ connected = [s \in Sessions |-> IF s = FirstSession THEN "up" ELSE "new"]
  /\ params \in ParamChoices
  /\ now = StartTime
  /\ nreq = 0
  /\ call \in [fn : {"_resize_keep_w"}, frame : FrameShapes, max_w : MaxWidths,
               ret : {NoFrame}]
  /\ reqs = [h \in Handlers |-> Idle]

\* the call returns
Resize(low) ==
  /\ call.fn = "_resize_keep_w"
  /\ call.ret = NoFrame
  /\ call' = [call EXCEPT !.ret = ResizeKeepW(call.frame, call.max_w, low)]
  /\ UNCHANGED <<registry, workers, out, connected, params, now, nreq, reqs>>

NextResize == \E low \in BOOLEAN : Resize(low)

SpecResize == InitResize /\ [][NextResize]_vars

\* ----------------------------------------------- one StreamWorker alone
\* One StreamWorker, constructed and not started, on which a caller makes
\* start() and stop() calls in any order while the thread it started
\* runs.  nreq counts the calls.
InitWorker ==
  /\ registry = [s \in Sessions |-> NoWorker]
  /\ workers = [w \in Workers |->
                 IF w = 1 THEN NewWorker(FirstSession, 1) ELSE NoInstance]
  /\ out = [s \in Sessions |-> <<>>]
  /\ connected = [s \in Sessions |-> IF s = FirstSession THEN "up" ELSE "new"]
  /\ params \in ParamChoices
  /\ now = StartTime
  /\ nreq = 0
  /\ call = NoCall
  /\ reqs = [h \in Handlers |-> Idle]

\* w.start(); alive records whether w's thread was alive at the call
CallStart(w) ==
  /\ workers[w].pc # "none"
  /\ nreq < MaxCalls
  /\ workers' = [workers EXCEPT ![w] = WorkerStart(@)]
  /\ call' = [fn |-> "start", on |-> w, alive |-> IsAlive(workers[w])]
  /\ nreq' = nreq + 1
  /\ UNCHANGED <<registry, out, connected, params, now, reqs>>

\* w.stop()
CallStop(w) ==
  /\ workers[w].pc # "none"
  /\ nreq < MaxCalls
  /\ workers' = [workers EXCEPT ![w] = WorkerStop(@)]
  /\ call' = [fn |-> "stop", on |-> w, alive |-> IsAlive(workers[w])]
  /\ nreq' = nreq + 1
  /\ UNCHANGED <<registry, out, connected, params, now, reqs>>

NextWorker ==
  \/ \E w \in Workers : CallStart(w)
  \/ \E w \in Workers : CallStop(w)
  \/ \E w \in Workers, ok \in BOOLEAN : WOpen(w, ok)
  \/ \E w \in Workers : WHead(w)
  \/ \E w \in Workers, res \in {"none", "frame", "raise"} : WRead(w, res)
  \/ \E w \in Workers, t \in Times, res \in {"ok", "fail", "raise"} :
       WProcess(w, t, res)
  \/ \E w \in Workers : WFinally(w)

SpecWorker == InitWorker /\ [][NextWorker]_vars

\* The worker's thread is scheduled again and again, and every call it
\* makes (open, read, time, imencode, close, emit) returns or raises.
FairWorker ==
  /\ SpecWorker
  /\ \A w \in Workers :
       /\ WF_vars(\E ok \in BOOLEAN : WOpen(w, ok))
       /\ WF_vars(WHead(w))
       /\ WF_vars(\E res \in {"none", "frame", "raise"} : WRead(w, res))
       /\ WF_vars(\E t \in Times, res \in {"ok", "fail", "raise"} : WProcess(w, t, res))
       /\ WF_vars(WFinally(w))

\* ---------------------------------------------- concurrent handlers
\* The transport runs the handler of every request on a thread of its own
\* and the module takes no lock: the statements of the handlers of one
\* session interleave.  A step is one access to _workers_by_sid, one call
\* of start() or stop(), or one emit.

\* A request of session sid arrives and its handler starts on the next
\* idle thread: on_start_stream (kind "start") or on_stop_stream ("stop").
Receive(sid, kind, payload) ==
  /\ connected[sid] = "up"
  /\ nreq < MaxReqs
  /\ reqs' = [reqs EXCEPT ![nreq + 1] =
                [kind |-> kind, sid |-> sid, cam_id |-> payload,
                 pc |-> IF kind = "start" THEN "parse" ELSE "pop", w |-> NoWorker]]
  /\ nreq' = nreq + 1
  /\ UNCHANGED <<registry, workers, out, connected, params, now, call>>

\* on_start_stream: cam_id = int(payload.get('cam_id'))
HParse(h) ==
  /\ reqs[h].pc = "parse"
  /\ IF reqs[h].cam_id = NoCam
     THEN /\ out' = Emit(out, reqs[h].sid,
                        Event("stream_error", NoCam, "invalid_cam_id", "handler",
                              NoWorker, 0))
          /\ reqs' = [reqs EXCEPT ![h].pc = "done"]
     ELSE /\ reqs' = [reqs EXCEPT ![h].pc = "pop"]
          /\ UNCHANGED out
  /\ UNCHANGED <<registry, workers, connected, params, now, nreq, call>>

\* both handlers: _workers_by_sid.pop(sid, None)
HPop(h) ==
  /\ reqs[h].pc = "pop"
  /\ reqs' = [reqs EXCEPT ![h].w = registry[reqs[h].sid], ![h].pc = "stop"]
  /\ registry' = [registry EXCEPT ![reqs[h].sid] = NoWorker]
  /\ UNCHANGED <<workers, out, connected, params, now, nreq, call>>

\* both handlers: stop() on the worker popped, if any
HStop(h) ==
  /\ reqs[h].pc = "stop"
  /\ workers' = IF reqs[h].w # NoWorker
                THEN [workers EXCEPT ![reqs[h].w] = WorkerStop(@)]
                ELSE workers
  /\ reqs' = [reqs EXCEPT ![h].pc =
                IF reqs[h].kind = "start" THEN "lookup"
                ELSE IF reqs[h].w # NoWorker THEN "emit" ELSE "done"]
  /\ UNCHANGED <<registry, out, connected, params, now, nreq, call>>

\* on_stop_stream: emit('stream_stopped', ...)
HEmit(h) ==
  /\ reqs[h].pc = "emit"
  /\ out' = Emit(out, reqs[h].sid,
                Event("stream_stopped", workers[reqs[h].w].cam_id, "", "handler",
                      reqs[h].w, 0))
  /\ reqs' = [reqs EXCEPT ![h].pc = "done"]
  /\ UNCHANGED <<registry, workers, connected, params, now, nreq, call>>

\* on_start_stream: _get_cam_url, then w = StreamWorker(...)
HLookup(h) ==
  /\ reqs[h].pc = "lookup"
  /\ LET r == GetCamUrl(reqs[h].cam_id)
     IN  IF r.err # ""
         THEN /\ out' = Emit(out, reqs[h].sid,
                            Event("stream_error", NoCam, r.err, "handler", NoWorker, 0))
              /\ reqs' = [reqs EXCEPT ![h].pc = "done"]
              /\ UNCHANGED workers
         ELSE IF ~r.enabled
         THEN /\ out' = Emit(out, reqs[h].sid,
                            Event("stream_stopped", reqs[h].cam_id, "", "handler",
                                  NoWorker, 0))
              /\ reqs' = [reqs EXCEPT ![h].pc = "done"]
              /\ UNCHANGED workers
         ELSE /\ NextSlot \in Workers
              /\ workers' = [workers EXCEPT
                               ![NextSlot] = NewWorker(reqs[h].sid, reqs[h].cam_id)]
              /\ reqs' = [reqs EXCEPT ![h].w = NextSlot, ![h].pc = "store"]
              /\ UNCHANGED out
  /\ UNCHANGED <<registry, connected, params, now, nreq, call>>

\* on_start_stream: _workers_by_sid[sid] = w
HStore(h) ==
  /\ reqs[h].pc = "store"
  /\ registry' = [registry EXCEPT ![reqs[h].sid] = reqs[h].w]
  /\ reqs' = [reqs EXCEPT ![h].pc = "start"]
  /\ UNCHANGED <<workers, out, connected, params, now, nreq, call>>

\* on_start_stream: w.start()
HStart(h) ==
  /\ reqs[h].pc = "start"
  /\ workers' = [workers EXCEPT ![reqs[h].w] = WorkerStart(@)]
  /\ reqs' = [reqs EXCEPT ![h].pc = "done"]
  /\ UNCHANGED <<registry, out, connected, params, now, nreq, call>>

NextRace ==
  \/ \E s \in Sessions, p \in Payloads : Receive(s, "start", p)
  \/ \E s \in Sessions : Receive(s, "stop", NoCam)
  \/ \E h \in Handlers : HParse(h)
  \/ \E h \in Handlers : HPop(h)
  \/ \E h \in Handlers : HStop(h)
  \/ \E h \in Handlers : HEmit(h)
  \/ \E h \in Handlers : HLookup(h)
  \/ \E h \in Handlers : HStore(h)
  \/ \E h \in Handlers : HStart(h)
  \/ \E w \in Workers, ok \in BOOLEAN : WOpen(w, ok)
  \/ \E w \in Workers : WHead(w)
  \/ \E w \in Workers, res \in {"none", "frame", "raise"} : WRead(w, res)
  \/ \E w \in Workers, t \in Times, res \in {"ok", "fail", "raise"} :
       WProcess(w, t, res)
  \/ \E w \in Workers : WFinally(w)

SpecRace == Init /\ [][NextRace]_vars

\* =================================================================
\* Properties
\* =================================================================

\* the session worker w was constructed for
SidOf(w) == workers[w].sid

\* positions in the session's event sequence of w's events of one kind
EventsBy(w, ev, src) ==
  LET o == out[workers[w].sid]
  IN  {i \in DOMAIN o : o[i].w = w /\ o[i].ev = ev /\ o[i].src = src}

Frames(w)         == EventsBy(w, "frame", "worker")
WorkerErrors(w)   == EventsBy(w, "stream_error", "worker")
WorkerStopped(w)  == EventsBy(w, "stream_stopped", "worker")
HandlerStopped(w) == EventsBy(w, "stream_stopped", "handler")

\* w's src.open() has failed
OpenFailed(w) ==
  \E i \in WorkerErrors(w) : out[SidOf(w)][i].msg = "open_error"

\* the last event emitted to session s
LastEvent(s) == out[s][Len(out[s])]

\* ---------------------------------------------------------------- C1
\* C1: every registry entry points at a worker constructed for that
\* session, so a session has at most one registered worker, and every
\* worker that was started and is not its session's registered worker has
\* its stop signal set.
C1_OneRegisteredWorker ==
  /\ \A s \in Sessions :
       registry[s] # NoWorker =>
         registry[s] \in Created /\ SidOf(registry[s]) = s
  /\ \A w \in Created :
       /\ workers[w].pc # "init"
       /\ registry[SidOf(w)] # w => workers[w].stop

\* a start_stream has replaced a running worker, which is still alive
C1_Witness ==
  \E w1 \in Created, w2 \in Created :
    /\ w1 # w2
    /\ SidOf(w1) = SidOf(w2)
    /\ registry[SidOf(w1)] = w2
    /\ HandlerStopped(w1) = {}
    /\ workers[w1].stop
    /\ IsAlive(workers[w1])
    /\ IsAlive(workers[w2])

\* ---------------------------------------------------------------- C2
\* w is not its session's registered worker, another worker is: a
\* start_stream has replaced w and started the new worker
Replaced(w) ==
  /\ w \in Created
  /\ registry[SidOf(w)] \notin {NoWorker, w}

\* frames w emitted while its stop signal was set
LateFrames(w) ==
  LET o == out[workers[w].sid]
  IN  {i \in DOMAIN o : o[i].late /\ o[i].w = w /\ o[i].ev = "frame"}

\* C2 as stated: once start_stream has replaced a session's worker and
\* started the new one, the replaced worker emits no further frame event.
C2_ReplacedEmitsNoFrame ==
  [][\A w \in Workers : Replaced(w) => Frames(w)' = Frames(w)]_vars

\* C2 amended: a replaced worker has its stop signal set, and a worker
\* emits at most one frame after its stop signal was set (the frame of the
\* iteration in progress); having emitted it, it is at the loop head or
\* past the loop.
C2_ReplacedEmitsAtMostOne ==
  \A w \in Created :
    LET late == LateFrames(w)
    IN  /\ Replaced(w) => workers[w].stop
        /\ Cardinality(late) <= 1
        /\ late # {} =>
             workers[w].stop /\ workers[w].pc \in {"head", "finally", "done"}

\* a replaced worker has emitted a frame while the new worker was running
C2_Witness ==
  \E w \in Created :
    /\ Replaced(w)
    /\ HandlerStopped(w) = {}
    /\ LateFrames(w) # {}
    /\ IsAlive(workers[registry[SidOf(w)]])

StoppedWhileStreaming(w) ==
  \E j \in HandlerStopped(w) : \E i \in Frames(w) : i < j

\* C4 as stated: after a stop_stream on a streaming worker the session
\* gets exactly one stream_stopped for it in total, and no frame after it.
C4_OneStoppedInTotal ==
  \A w \in Created :
    StoppedWhileStreaming(w) =>
      /\ Cardinality(HandlerStopped(w) \cup WorkerStopped(w)) = 1
      /\ \A i \in Frames(w), j \in HandlerStopped(w) \cup WorkerStopped(w) : i < j

\* C4 amended: the handler emits one stream_stopped and the worker's loop
\* exit a second one; at most one frame of the worker follows the
\* handler's event and none follows the worker's own.
C4_TwoStoppedInTotal ==
  \A w \in Created :
    StoppedWhileStreaming(w) =>
      LET byHandler == HandlerStopped(w)
          byWorker == WorkerStopped(w)
          frames == Frames(w)
      IN  /\ Cardinality(byHandler) = 1
          /\ Cardinality(byWorker) <= 1
          /\ workers[w].pc = "done" <=> Cardinality(byWorker) = 1
          /\ \A j \in byHandler : Cardinality({i \in frames : i > j}) <= 1
          /\ \A i \in frames, j \in byWorker : i < j

\* a stopped worker has terminated: two stream_stopped events, and a frame
\* between them
C4_Witness ==
  \E w \in Created :
    /\ StoppedWhileStreaming(w)
    /\ workers[w].pc = "done"
    /\ Cardinality(HandlerStopped(w) \cup WorkerStopped(w)) = 2
    /\ \E i \in Frames(w), j \in HandlerStopped(w) : i > j

\* ---------------------------------------------------------------- C5
\* C5: a session that has disconnected has no registered worker, and the
\* stop signal of every worker started for it is set.
C5_DisconnectStopsWorker ==
  \A s \in Sessions :
    connected[s] = "gone" =>
      /\ registry[s] = NoWorker
      /\ \A w \in Created : SidOf(w) = s => workers[w].stop

\* ---------------------------------------------------------------- C6
\* C6 as stated: a worker the registry refers to has not terminated.
C6_NoEntryForEndedWorker ==
  \A s \in Sessions :
    registry[s] # NoWorker => workers[registry[s]].pc # "done"

\* C6 amended: a worker the registry refers to has been started and its
\* stop signal is not set (the handlers remove and stop together); it may
\* have ended by itself, and then its entry stays.
C6_EntryNotStopped ==
  \A s \in Sessions :
    registry[s] # NoWorker =>
      /\ registry[s] \in Created
      /\ workers[registry[s]].pc # "init"
      /\ ~workers[registry[s]].stop

\* a worker that ended by itself on a steady-state failure is still
\* registered
C6_Witness ==
  \E s \in Sessions :
    /\ registry[s] # NoWorker
    /\ workers[registry[s]].pc = "done"
    /\ ~OpenFailed(registry[s])
    /\ WorkerErrors(registry[s]) # {}
    /\ WorkerStopped(registry[s]) # {}

\* ---------------------------------------------------------------- C7
\* the camera's URL is empty (nothing but blanks)
UrlEmpty(c) ==
  \A i \in DOMAIN Cameras[c].rtsp_url : Cameras[c].rtsp_url[i] = " "

\* the camera is not in the registry, or its URL is empty
Unavailable(c) == c \notin DOMAIN Cameras \/ UrlEmpty(c)

\* o2 is o1 with one event appended to session s, and nothing else
OneMore(o1, o2, s) ==
  /\ Len(o2[s]) = Len(o1[s]) + 1
  /\ SubSeq(o2[s], 1, Len(o1[s])) = o1[s]
  /\ \A t \in Sessions \ {s} : o2[t] = o1[t]

\* C7: a start_stream for an unavailable camera emits one stream_error to
\* the session, constructs and starts no worker, and leaves the session
\* without entry; a worker the session had is stopped.
C7_UnavailableCamera ==
  [][\A s \in Sessions, c \in CamIds :
       (Unavailable(c) /\ StartStream(s, c)) =>
         /\ OneMore(out, out', s)
         /\ out'[s][Len(out'[s])].ev = "stream_error"
         /\ out'[s][Len(out'[s])].src = "handler"
         /\ \A w \in Workers : workers'[w].pc = workers[w].pc
         /\ registry'[s] = NoWorker
         /\ \A t \in Sessions \ {s} : registry'[t] = registry[t]
         /\ registry[s] # NoWorker => workers'[registry[s]].stop]_vars

\* the request has stopped and removed the session's running worker
C7_Witness ==
  \E s \in Sessions, w \in Created :
    /\ out[s] # <<>>
    /\ LastEvent(s).ev = "stream_error" /\ LastEvent(s).src = "handler"
    /\ LastEvent(s).msg \in {"camera_not_found", "rtsp_url_empty"}
    /\ registry[s] = NoWorker
    /\ SidOf(w) = s /\ workers[w].stop /\ IsAlive(workers[w])
    /\ HandlerStopped(w) = {}

\* ---------------------------------------------------------------- C8
\* no worker streams a disabled camera and no frame event carries one
NoFrameOfDisabled ==
  /\ \A w \in Created : Cameras[workers[w].cam_id].stream_enabled
  /\ \A s \in Sessions : \A i \in DOMAIN out[s] :
       out[s][i].ev = "frame" => Cameras[out[s][i].cam_id].stream_enabled

\* what a start_stream for a disabled camera c does in a step
DisabledOutcome(s, c) ==
  /\ OneMore(out, out', s)
  /\ out'[s][Len(out'[s])].ev = "stream_stopped"
  /\ out'[s][Len(out'[s])].cam_id = c
  /\ \A w \in Workers : workers'[w].pc = workers[w].pc
  /\ registry'[s] = NoWorker

\* C8 as stated: a start_stream for a camera whose stream_enabled is false
\* emits one stream_stopped for it and no stream_error, and creates no
\* worker.
C8_DisabledCamera ==
  [][\A s \in Sessions, c \in DOMAIN Cameras :
       (~Cameras[c].stream_enabled /\ StartStream(s, c)) =>
         DisabledOutcome(s, c)]_vars

\* C8 amended: the same for a disabled camera whose URL is not empty (the
\* URL is tested first); and no frame event ever carries the id of a
\* disabled camera.
C8_DisabledCameraWithUrl ==
  /\ []NoFrameOfDisabled
  /\ [][\A s \in Sessions, c \in DOMAIN Cameras :
          (~Cameras[c].stream_enabled /\ ~UrlEmpty(c) /\ StartStream(s, c)) =>
            DisabledOutcome(s, c)]_vars

\* a start_stream for the disabled camera 2 has been answered
C8_Witness ==
  \E s \in Sessions :
    /\ out[s] # <<>>
    /\ LastEvent(s).ev = "stream_stopped" /\ LastEvent(s).src = "handler"
    /\ LastEvent(s).w = NoWorker
    /\ LastEvent(s).cam_id = 2
    /\ registry[s] = NoWorker

\* ---------------------------------------------------------------- C9
\* C9: a stop_stream on a session without registered worker emits nothing
\* and changes neither the registry nor any worker.
C9_StopWithoutWorker ==
  [][\A s \in Sessions :
       (registry[s] = NoWorker /\ StopStream(s)) =>
         UNCHANGED <<out, registry, workers>>]_vars

\* requests have been handled and left no trace: they were stop_streams
\* on sessions without worker
C9_Witness ==
  /\ nreq = MaxReqs
  /\ \A s \in Sessions : out[s] = <<>> /\ registry[s] = NoWorker
  /\ connected = [s \in Sessions |-> IF s = FirstSession THEN "up" ELSE "new"]
  /\ Created = {}

\* --------------------------------------------------------------- C10
\* every frame event carries a capture index that is a positive multiple
\* of the stride and that its worker has read; a frame that reaches the
\* resize / rate check / encode step has such an index
StrideInv ==
  /\ \A s \in Sessions : \A i \in DOMAIN out[s] :
       out[s][i].ev = "frame" =>
         /\ out[s][i].idx >= 1
         /\ out[s][i].idx % params.annotation_stride = 0
         /\ out[s][i].idx <= workers[out[s][i].w].frame_idx
  /\ \A w \in Created :
       workers[w].pc = "process" =>
         /\ workers[w].frame_idx >= 1
         /\ workers[w].frame_idx % params.annotation_stride = 0

\* C10: with annotation_stride = S >= 1 only frames whose 1-based capture
\* index is a multiple of S are processed and emitted; a read that returns
\* a frame advances the index by one, a read that returns none leaves it.
C10_FrameSkip ==
  /\ [](params.annotation_stride >= 1 => StrideInv)
  /\ [][\A w \in Workers :
          /\ WRead(w, "none") => workers'[w].frame_idx = workers[w].frame_idx
          /\ WRead(w, "frame") => workers'[w].frame_idx = workers[w].frame_idx + 1]_vars

\* with stride 2, frame 1 was skipped and frame 2 emitted
C10_Witness ==
  /\ params.annotation_stride = 2
  /\ \E w \in Created : \E i \in Frames(w) :
       /\ out[SidOf(w)][i].idx = 2
       /\ Cardinality(Frames(w)) = 1

\* --------------------------------------------------------------- C11
\* the rate-check timestamps of w's frame events, by position
FrameGaps(w) ==
  LET o == out[workers[w].sid]
      f == Frames(w)
  IN  {o[j].at - o[i].at : <<i, j>> \in {p \in f \X f : p[1] < p[2]}}

\* C11 as stated: with fps_target = F = n/d > 0, two frame events of one
\* worker are never closer together than 1/F seconds (d/n seconds).
C11_GapAtLeastInverseRate ==
  \A w \in Created : \A g \in FrameGaps(w) :
    g * params.fps_target[1] >= TicksPerSec * params.fps_target[2]

\* C11 amended: two frame events of one worker are never closer together
\* than 1/max(1, F) seconds: 1/F seconds for F >= 1, one second for F < 1.
C11_GapAtLeastClampedPeriod ==
  \A w \in Created : \A g \in FrameGaps(w) :
    IF params.fps_target[1] >= params.fps_target[2]
    THEN g * params.fps_target[1] >= TicksPerSec * params.fps_target[2]
    ELSE g >= TicksPerSec

\* with fps_target below 1, a worker has emitted two frames one second
\* apart
C11_Witness ==
  /\ params.fps_target[1] < params.fps_target[2]
  /\ \E w \in Created : TicksPerSec \in FrameGaps(w)

\* --------------------------------------------------------------- C12
\* a step of a handler serving session a, or of a worker constructed for a
ActsFor(a) ==
  \/ \E p \in Payloads : StartStream(a, p)
  \/ StopStream(a)
  \/ \E w \in Workers :
       /\ SidOf(w) = a
       /\ \/ \E ok \in BOOLEAN : WOpen(w, ok)
          \/ WHead(w)
          \/ \E res \in {"none", "frame", "raise"} : WRead(w, res)
          \/ \E t \in Times, res \in {"ok", "fail", "raise"} : WProcess(w, t, res)
          \/ WFinally(w)

\* the step leaves session b alone: its registry entry, the events
\* delivered to it, and every worker constructed for it
Untouched(b) ==
  /\ registry'[b] = registry[b]
  /\ out'[b] = out[b]
  /\ \A w \in Workers : SidOf(w) = b => workers'[w] = workers[w]

\* C12: a start_stream or stop_stream of session a, and every step of a
\* worker of a (its failures included), leaves every other session's
\* registry entry, its workers (their stop signals) and the events
\* delivered to it unchanged.
C12_SessionsIndependent ==
  [][\A a \in Sessions :
       ActsFor(a) => \A b \in Sessions \ {a} : Untouched(b)]_vars

\* one session's worker has failed and ended while the other session's
\* registered worker streams on
C12_Witness ==
  \E a \in Sessions, b \in Sessions, w \in Created :
    /\ a # b
    /\ SidOf(w) = a /\ WorkerErrors(w) # {} /\ workers[w].pc = "done"
    /\ registry[b] # NoWorker
    /\ IsAlive(workers[registry[b]]) /\ ~workers[registry[b]].stop
    /\ Frames(registry[b]) # {}
    /\ \A i \in DOMAIN out[b] : out[b][i].ev = "frame"

\* --------------------------------------------------------------- C13
\* C13: a start_stream whose payload has no integer cam_id emits one
\* stream_error (invalid_cam_id) to the requesting session and changes
\* neither the registry nor any worker: the session's registered worker
\* stays registered, running as it was, its stop signal as it was.
C13_InvalidRequest ==
  [][\A s \in Sessions :
       StartStream(s, NoCam) =>
         /\ OneMore(out, out', s)
         /\ out'[s][Len(out'[s])].ev = "stream_error"
         /\ out'[s][Len(out'[s])].msg = "invalid_cam_id"
         /\ registry' = registry
         /\ workers' = workers]_vars

\* a session whose worker is streaming has sent an invalid start_stream:
\* the worker is still registered and running, its stop signal clear
C13_Witness ==
  \E s \in Sessions :
    /\ out[s] # <<>>
    /\ LastEvent(s).ev = "stream_error" /\ LastEvent(s).msg = "invalid_cam_id"
    /\ registry[s] # NoWorker
    /\ IsAlive(workers[registry[s]]) /\ ~workers[registry[s]].stop
    /\ Frames(registry[s]) # {}

\* --------------------------------------------------------------- C14
\* C14: _resize_keep_w(frame, W) on a frame of width w and height h: when
\* W is a positive int and w > W the result has width W and a height nh
\* >= 1 with |nh - h*W/w| <= 1; otherwise (w <= W, or W no positive int)
\* the result is the frame it was given.
C14_ResizeKeepWidth ==
  (call.fn = "_resize_keep_w" /\ call.ret # NoFrame) =>
    LET f == call.frame
        W == call.max_w
        r == call.ret
    IN  IF W.type = "int" /\ W.val > 0 /\ f.w > W.val
        THEN /\ r.w = W.val
             /\ r.h >= 1
             /\ r.h * f.w - f.h * W.val <= f.w
             /\ f.h * W.val - r.h * f.w <= f.w
        ELSE r = f

\* a frame three wide and four high was resized to width two: the height
\* 8/3 became 2
C14_Witness ==
  /\ call.fn = "_resize_keep_w"
  /\ call.frame = [w |-> 3, h |-> 4, data |-> "source"]
  /\ call.max_w = [type |-> "int", val |-> 2]
  /\ call.ret = [w |-> 2, h |-> 2, data |-> "resized"]

\* --------------------------------------------------------------- C15
\* no handler is in the middle of a request
Quiet == \A h \in Handlers : reqs[h].pc \in {"idle", "done"}

\* C15: with the handlers of one session interleaved, once the requests
\* have been handled every running worker is its session's registered
\* worker or has its stop signal set.
C15_NoOrphanWorker ==
  Quiet =>
    \A w \in Created :
      (IsAlive(workers[w]) /\ registry[SidOf(w)] # w) => workers[w].stop

\* --------------------------------------------------------------- C16
\* C16: a worker's stop signal, once set, stays set (start() is not called
\* again on the instance); from then on the worker emits at most one
\* frame, and only as the end of the iteration it was in, and when it next
\* stands at the loop test it leaves the loop.
C16_StopLatency ==
  /\ [](\A w \in Created : Cardinality(LateFrames(w)) <= 1)
  /\ [][\A w \in Workers :
          workers[w].stop =>
            /\ workers'[w].stop
            /\ workers[w].pc = "head" => workers'[w].pc \in {"head", "finally"}
            /\ Frames(w)' # Frames(w) =>
                 /\ LateFrames(w) = {}
                 /\ workers[w].pc = "process"
                 /\ workers'[w].pc = "head"]_vars

\* stop_stream has stopped a worker in mid-iteration: the worker has
\* emitted that iteration's frame after the handler's stream_stopped and
\* has left the loop
C16_Witness ==
  \E w \in Created :
    /\ workers[w].stop
    /\ workers[w].pc = "finally"
    /\ Cardinality(LateFrames(w)) = 1
    /\ \E j \in HandlerStopped(w) : \A i \in LateFrames(w) : j < i

\* --------------------------------------------------------------- C17
\* w has ended through the finally block: its source is closed and the
\* last event of its session is its stream_stopped
EndedCleanly(w) ==
  /\ workers[w].pc = "done"
  /\ workers[w].cap = "none"
  /\ out[SidOf(w)] # <<>>
  /\ LastEvent(SidOf(w)) =
       Event("stream_stopped", workers[w].cam_id, "", "worker", w, 0)

\* C17: with the worker's thread scheduled fairly and every call of the
\* loop returning, a worker in its capture loop whose stop signal is set
\* leaves the loop, closes its source and emits stream_stopped, whatever
\* the reads return.
C17_StoppedWorkerEnds ==
  \A w \in Workers :
    (workers[w].stop /\ workers[w].pc \in {"head", "read", "process"})
      ~> EndedCleanly(w)

\* stop() was called on a running worker whose source never delivered a
\* frame; the worker has ended
C17_Witness ==
  /\ call.fn = "stop"
  /\ call.alive
  /\ workers[call.on].stop
  /\ workers[call.on].frame_idx = 0
  /\ WorkerErrors(call.on) = {}
  /\ EndedCleanly(call.on)

\* --------------------------------------------------------------- C18
\* C18: a worker that has emitted its stream_stopped, and every worker
\* that has terminated (on the stop signal, on an open failure or on a
\* steady-state failure), holds no capture handle: close() has run and
\* cleared it.
C18_SourceReleased ==
  \A w \in Created :
    (workers[w].pc = "done" \/ WorkerStopped(w) # {}) => workers[w].cap = "none"

\* --------------------------------------------------------------- C19
\* C19: a worker emits at most one stream_error; having emitted it, it is
\* past its loop for good and every frame of it came before; after an
\* open failure it has emitted no frame and has terminated.  A read that
\* returns no frame, and a frame the encoder rejects, emit nothing and
\* lead back to the loop test.
C19_OnlyEndingsReported ==
  /\ [](\A w \in Created :
          LET errs == WorkerErrors(w)
              frames == Frames(w)
          IN  /\ Cardinality(errs) <= 1
              /\ errs # {} =>
                   /\ workers[w].pc \in {"finally", "done"}
                   /\ \A i \in frames, j \in errs : i < j
              /\ OpenFailed(w) => frames = {} /\ workers[w].pc = "done")
  /\ [][\A w \in Workers :
          /\ WRead(w, "none") => out' = out /\ workers'[w].pc = "head"
          /\ (\E t \in Times : WProcess(w, t, "fail")) =>
               out' = out /\ workers'[w].pc = "head"]_vars

\* one worker had a frame rejected by the encoder, went on and later ended
\* on a failure of the source, with one stream_error; another ended on an
\* open failure
C19_Witness ==
  \E w1 \in Created, w2 \in Created :
    /\ workers[w1].last_emit # 0 /\ Frames(w1) = {}
    /\ ~OpenFailed(w1) /\ Cardinality(WorkerErrors(w1)) = 1
    /\ workers[w1].pc = "done"
    /\ OpenFailed(w2) /\ Cardinality(WorkerErrors(w2)) = 1

\* --------------------------------------------------------------- C20
\* C20: a start() made while the instance's thread is alive changes
\* nothing of the instance (no new run, the stop signal as it was), and a
\* run begins only when no run of the instance is alive: an instance never
\* has two capture threads.
C20_StartIdempotent ==
  [][\A w \in Workers :
       /\ (CallStart(w) /\ IsAlive(workers[w])) =>
            /\ workers'[w] = workers[w]
            /\ out' = out
       /\ (workers'[w].pc = "open" /\ workers[w].pc # "open") =>
            ~IsAlive(workers[w])]_vars

\* start() was called on an instance whose thread was alive and whose stop
\* signal was set: the thread is the same and the signal is still set
C20_Witness ==
  /\ call.fn = "start"
  /\ call.alive
  /\ workers[call.on].stop
  /\ IsAlive(workers[call.on])
  /\ Frames(call.on) # {}

====
